---- MODULE Spec2Model ----
(***************************************************************************)
(* The notebooks of mslearn-dp100 as straight-line programs of SDK calls   *)
(* against one Azure ML workspace, together with the platform steps those  *)
(* calls set in motion (cluster provisioning, script runs, the hyperdrive  *)
(* sweep).  One behaviour is one top-to-bottom execution of one notebook   *)
(* against a workspace whose prior content is chosen in Init.              *)
(* Fractional numbers are kept in hundredths (0.01 is 1, 1.0 is 100).      *)
(* A fitted classifier is one of the abstract classifiers 1..MaxModels,     *)
(* each with its Accuracy and AUC on the test split as ordered levels.     *)
(***************************************************************************)
EXTENDS Integers, Sequences, FiniteSets, TLC

\* ---------------------------------------------------------------- bounds
MaxModels == 2
MaxExistingNodes == 3

\* ------------------------------------------------------ program constants
max_nodes == 2
max_total_runs == 6
max_concurrent_runs == 2
MinNameLen == 2
MaxNameLen == 16
primary_metric_name == "AUC"
primary_metric_goal == "MAXIMIZE"
learning_rate == <<1, 10, 100>>
n_estimators == <<10, 100>>
model_path == "outputs/diabetes_model.pkl"
model_name == "diabetes_model"

Notebooks == {"Tune", "AutoML", "Compute", "Interpret", "Train", "Drift",
              "ScoreAutoML", "ScoreDesigner"}

DatasetNames == {"diabetes dataset", "diabetes baseline", "diabetes target"}

\* The values of cluster_name a notebook runs with: the one in its cell, and
\* for the notebook that ships the placeholder also a name put in its place
\* as the notebook asks.
ClusterNames(n) ==
  IF n = "Compute" THEN {"your-compute-cluster", "dp100cluster"}
                   ELSE {"dp100cluster"}

ValidName(s) == Len(s) >= MinNameLen /\ Len(s) <= MaxNameLen

\* The grid of GridParameterSampling, in the order the sweep generates it.
params ==
  [k \in 1..(Len(learning_rate) * Len(n_estimators)) |->
     << learning_rate[((k - 1) % Len(learning_rate)) + 1],
        n_estimators[((k - 1) \div Len(learning_rate)) + 1] >>]

\* ------------------------------------------------------------- notebooks
\* One cell (or one SDK call site of a cell) of a notebook.
\*   kind   : what is submitted ("script", "hyperdrive", "automl", "backfill")
\*   script : the training script the run executes
\*   target : "var" the training_cluster variable, "name" the cluster_name
\*            string, "local" no compute target
\*   ds     : "get" the cell calls ws.datasets.get, "var" it uses the
\*            diabetes_ds variable, "none"
\*   tag    : dataset name, folder or 'Training context' tag of the call
Cell(op, kind, script, target, ds, tag) ==
  [op |-> op, kind |-> kind, script |-> script, target |-> target,
   ds |-> ds, tag |-> tag]

Op(op) == Cell(op, "", "", "", "none", "")

\* The tuning notebook without its last cell, the registration of the model.
TuneProgram_NoRegister ==
  << Op("from_config"),
     Op("prepare_data"),
     Op("create_compute"),
     Cell("submit", "hyperdrive", "tune", "var", "get", ""),
     Op("wait_for_completion"),
     Op("get_best_run") >>

TuneProgram ==
  << Op("from_config"),
     Op("prepare_data"),
     Op("create_compute"),
     Cell("submit", "hyperdrive", "tune", "var", "get", ""),
     Op("wait_for_completion"),
     Op("get_best_run"),
     Cell("register_model", "best_run", "", "", "none", "Hyperdrive") >>

AutoMLProgram ==
  << Op("from_config"),
     Op("prepare_data"),
     Op("random_split"),
     Op("create_compute"),
     Cell("submit", "automl", "", "var", "var", ""),
     Op("wait_for_completion"),
     Op("get_children") >>

ComputeProgram ==
  << Op("from_config"),
     Op("prepare_data"),
     Cell("submit", "script", "logistic", "local", "get", ""),
     Op("wait_for_completion"),
     Cell("get_metrics", "files", "", "", "none", ""),
     Op("env_register"),
     Cell("submit", "script", "tree", "local", "get", ""),
     Op("wait_for_completion"),
     Cell("get_metrics", "files", "", "", "none", ""),
     Op("create_compute"),
     Cell("submit", "script", "tree", "name", "var", ""),
     Op("get_status"),
     Op("wait_for_completion"),
     Cell("get_metrics", "files", "", "", "none", ""),
     Cell("register_model", "", "", "", "none", "Compute cluster") >>

InterpretProgram ==
  << Op("from_config"),
     Cell("submit", "script", "explain", "local", "none", ""),
     Op("wait_for_completion"),
     Op("download_model_explanation") >>

\* The Train notebook with the wait of its first experiment left out.
TrainProgram_NoWait ==
  << Op("from_config"),
     Cell("submit", "script", "train", "local", "none", ""),
     Cell("get_metrics", "files", "", "", "none", ""),
     Cell("register_model", "", "", "", "none", "Script") >>

TrainProgram ==
  << Op("from_config"),
     Cell("submit", "script", "train", "local", "none", ""),
     Op("wait_for_completion"),
     Cell("get_metrics", "files", "", "", "none", ""),
     Cell("register_model", "", "", "", "none", "Script"),
     Cell("submit", "script", "train", "local", "none", ""),
     Op("wait_for_completion"),
     Cell("get_metrics", "files", "", "", "none", ""),
     Cell("register_model", "", "", "", "none", "Parameterized script") >>

DriftProgram ==
  << Op("from_config"),
     Cell("upload_files", "", "", "", "none", "diabetes-baseline"),
     Cell("register_dataset", "", "", "", "none", "diabetes baseline"),
     Cell("upload_files", "", "", "", "none", "diabetes-target"),
     Cell("register_dataset", "", "", "", "none", "diabetes target"),
     Op("create_compute"),
     Op("create_from_datasets"),
     Cell("submit", "backfill", "", "name", "none", ""),
     Op("wait_for_completion"),
     Op("get_metrics") >>

ScoreAutoMLProgram == << Op("requests_post") >>

ScoreDesignerProgram == << Op("urlopen") >>

Program(n) ==
  CASE n = "Tune" -> TuneProgram
    [] n = "AutoML" -> AutoMLProgram
    [] n = "Compute" -> ComputeProgram
    [] n = "Interpret" -> InterpretProgram
    [] n = "Train" -> TrainProgram
    [] n = "Drift" -> DriftProgram
    [] n = "ScoreAutoML" -> ScoreAutoMLProgram
    [] n = "ScoreDesigner" -> ScoreDesignerProgram

\* -------------------------------------------------------- training scripts
Stmt(stmt, name) == [stmt |-> stmt, name |-> name]

\* The script with the model saved only after run.complete().
TuneScript_SaveAfterComplete ==
  << Stmt("parse", ""),
     Stmt("log", "learning_rate"),
     Stmt("log", "n_estimators"),
     Stmt("load", ""),
     Stmt("fit", ""),
     Stmt("log", "Accuracy"),
     Stmt("log", "AUC"),
     Stmt("complete", ""),
     Stmt("dump", "outputs/diabetes_model.pkl") >>

TuneScript ==
  << Stmt("parse", ""),
     Stmt("log", "learning_rate"),
     Stmt("log", "n_estimators"),
     Stmt("load", ""),
     Stmt("fit", ""),
     Stmt("log", "Accuracy"),
     Stmt("log", "AUC"),
     Stmt("dump", "outputs/diabetes_model.pkl"),
     Stmt("complete", "") >>

LogisticScript ==
  << Stmt("load", ""),
     Stmt("log", "Regularization Rate"),
     Stmt("fit", ""),
     Stmt("log", "Accuracy"),
     Stmt("log", "AUC"),
     Stmt("dump", "outputs/diabetes_model.pkl"),
     Stmt("complete", "") >>

TreeScript ==
  << Stmt("load", ""),
     Stmt("fit", ""),
     Stmt("log", "Accuracy"),
     Stmt("log", "AUC"),
     Stmt("dump", "outputs/diabetes_model.pkl"),
     Stmt("complete", "") >>

ExplainScript ==
  << Stmt("load", ""),
     Stmt("fit", ""),
     Stmt("log", "Accuracy"),
     Stmt("log", "AUC"),
     Stmt("dump", "outputs/diabetes.pkl"),
     Stmt("complete", "") >>

Script(s) ==
  CASE s = "tune" -> TuneScript
    [] s = "logistic" -> LogisticScript
    [] s = "train" -> LogisticScript
    [] s = "tree" -> TreeScript
    [] s = "explain" -> ExplainScript

\* ------------------------------------------------------------------ state
VARIABLES
  nb,                \* the notebook being executed
  cluster_name,      \* the value its cells assign to cluster_name
  pc,                \* index in Program(nb) of the next cell
  status,            \* "running", "done", "aborted" (uncaught exception)
  waiting,           \* TRUE while the Create-compute cell blocks in its wait
  calls,             \* the SDK calls issued so far, in order
  out,               \* what the cells printed, in order
  http,              \* the scoring request sent and the response to it
  training_cluster,  \* TRUE when the variable is bound
  diabetes_ds,       \* TRUE when the variable is bound to a dataset
  best_run,          \* index in script_runs of best_run, 0 when unbound
  best_run_metrics,  \* the metrics dict of best_run
  run,               \* the run object of the kernel
  script_runs,       \* the script runs of `run` (itself, or its child runs)
  datasets,          \* workspace: registered version count per dataset name
  datastore,         \* workspace: the folders uploaded to the datastore
  cluster,           \* workspace: the compute target named cluster_name
  models             \* workspace: registered models, in registration order

kernelVars == <<nb, cluster_name, pc, status, waiting, calls, out, http, training_cluster,
                diabetes_ds, best_run, best_run_metrics>>
runVars == <<run, script_runs>>
wsVars == <<datasets, datastore, cluster, models>>
vars == <<kernelVars, runVars, wsVars>>

NoRun == [kind |-> "none", status |-> "NotStarted", target |-> "local", script |-> ""]
NoMetrics == [AUC |-> 0, Accuracy |-> 0]
Absent == [state |-> "Absent", max_nodes |-> 0]
NoRequest == [method |-> "", body |-> "", content_type |-> "", authorization |-> <<>>]
NoResponse == [code |-> 0, result |-> <<>>]

Init ==
  /\ nb \in Notebooks
  /\ cluster_name \in ClusterNames(nb)
  /\ pc = 1
  /\ status = "running"
  /\ waiting = FALSE
  /\ calls = <<>>
  /\ out = <<>>
  /\ http = [request |-> NoRequest, response |-> NoResponse]
  /\ training_cluster = FALSE
  /\ diabetes_ds = FALSE
  /\ best_run = 0
  /\ best_run_metrics = NoMetrics
  /\ run = NoRun
  /\ script_runs = <<>>
  /\ \E registered \in BOOLEAN :
       datasets = [d \in DatasetNames |->
                     IF d = "diabetes dataset" /\ registered THEN 1 ELSE 0]
  /\ datastore = IF datasets["diabetes dataset"] > 0 THEN {"diabetes-data/"} ELSE {}
  /\ \/ cluster = Absent
     \/ /\ ValidName(cluster_name)
        /\ \E n \in 1..MaxExistingNodes :
             cluster = [state |-> "Succeeded", max_nodes |-> n]
  /\ models = <<>>

\* ---------------------------------------------------------------- helpers
Cur == Program(nb)[pc]

At(op) ==
  /\ status = "running"
  /\ ~waiting
  /\ Cur.op = op

\* An SDK call issued by the cell at pc; handler names the except block the
\* call is written in ("" when it is in none), raised tells that the call
\* raised an exception.
HCall(name, handler, raised) ==
  [site |-> pc, call |-> name, handler |-> handler, raised |-> raised]
Call(name) == HCall(name, "", FALSE)
Failed(name) == HCall(name, "", TRUE)

\* The cell ran to its end: the kernel moves to the next cell.
Proceed(cs, os) ==
  /\ calls' = calls \o cs
  /\ out' = out \o os
  /\ pc' = pc + 1
  /\ status' = IF pc = Len(Program(nb)) THEN "done" ELSE "running"
  /\ UNCHANGED <<nb, cluster_name>>

Advance(cs, os) == Proceed(cs, os) /\ UNCHANGED http

\* An exception left the cell: the execution of the notebook stops.
Abort(cs, os) ==
  /\ calls' = calls \o cs
  /\ out' = out \o os
  /\ status' = "aborted"
  /\ UNCHANGED <<nb, cluster_name, pc>>

Raise(cs, os) == Abort(cs, os) /\ UNCHANGED http

Registered == datasets["diabetes dataset"] > 0

NewJob(args) ==
  [args |-> args, status |-> "Queued", model |-> 0, log |-> <<>>, files |-> {},
   trace |-> <<>>]

Terminal(j) == j.status \in {"Completed", "Failed"}

Count(st) == Cardinality({i \in DOMAIN script_runs : script_runs[i].status = st})

\* The value a run logged under name (run.get_metrics()[name]), 0 when the
\* run logged no such metric.
Logged(j, name) ==
  LET idx == {k \in DOMAIN j.log : j.log[k][1] = name}
  IN  IF idx = {} THEN 0 ELSE j.log[CHOOSE k \in idx : \A m \in idx : m <= k][2]

get_metrics(j) == [AUC |-> Logged(j, "AUC"), Accuracy |-> Logged(j, "Accuracy")]

\* ------------------------------------------------------ cells: workspace
FromConfig ==
  /\ At("from_config")
  /\ Advance(<<Call("Workspace.from_config")>>, <<"Ready">>)
  /\ UNCHANGED <<waiting, training_cluster, diabetes_ds, best_run,
                 best_run_metrics, runVars, wsVars>>

\* A Prepare-data cell without the test of ws.datasets: it uploads and
\* registers whatever the workspace holds.
PrepareData_Unconditional ==
  /\ At("prepare_data")
  /\ datastore' = datastore \cup {"diabetes-data/"}
  /\ datasets' = [datasets EXCEPT !["diabetes dataset"] = @ + 1]
  /\ Advance(<<Call("upload_files"), Call("Dataset.register")>>,
             <<"Dataset registered.">>)
  /\ UNCHANGED <<waiting, training_cluster, diabetes_ds, best_run,
                 best_run_metrics, runVars, cluster, models>>

\* The Prepare-data cell.
PrepareData ==
  /\ At("prepare_data")
  /\ IF Registered
       THEN /\ Advance(<<Call("ws.datasets")>>, <<"Dataset already registered.">>)
            /\ UNCHANGED <<datasets, datastore>>
       ELSE \E uploaded \in BOOLEAN, registered \in BOOLEAN :
              IF ~uploaded
                THEN /\ Raise(<<Call("ws.datasets"), Failed("upload_files")>>, <<>>)
                     /\ UNCHANGED <<datasets, datastore>>
                ELSE /\ datastore' = datastore \cup {"diabetes-data/"}
                     /\ datasets' = IF registered
                                      THEN [datasets EXCEPT !["diabetes dataset"] = @ + 1]
                                      ELSE datasets
                     /\ Advance(<<Call("ws.datasets"), Call("upload_files"),
                                  HCall("Dataset.register", "", ~registered)>>,
                                IF registered THEN <<"Dataset registered.">>
                                              ELSE <<"ex">>)
  /\ UNCHANGED <<waiting, training_cluster, diabetes_ds, best_run,
                 best_run_metrics, runVars, cluster, models>>

\* diabetes_ds = ws.datasets.get(...); diabetes_ds.random_split(...)
RandomSplit ==
  /\ At("random_split")
  /\ diabetes_ds' = Registered
  /\ IF Registered
       THEN Advance(<<Call("ws.datasets")>>, <<"Data ready!">>)
       ELSE Raise(<<Call("ws.datasets")>>, <<>>)
  /\ UNCHANGED <<waiting, training_cluster, best_run, best_run_metrics,
                 runVars, wsVars>>

\* An upload that is attempted a second time when the first attempt raises.
UploadFiles_Retry ==
  /\ At("upload_files")
  /\ datastore' = datastore \cup {Cur.tag}
  /\ \E ok \in BOOLEAN :
       Advance(IF ok THEN <<Call("upload_files")>>
                     ELSE <<Failed("upload_files"), Call("upload_files")>>, <<>>)
  /\ UNCHANGED <<waiting, training_cluster, diabetes_ds, best_run,
                 best_run_metrics, runVars, datasets, cluster, models>>

\* default_ds.upload_files(...) of the drift notebook, outside any try.
UploadFiles ==
  /\ At("upload_files")
  /\ \E ok \in BOOLEAN :
       IF ok
         THEN /\ datastore' = datastore \cup {Cur.tag}
              /\ Advance(<<Call("upload_files")>>, <<>>)
         ELSE /\ Raise(<<Failed("upload_files")>>, <<>>)
              /\ UNCHANGED datastore
  /\ UNCHANGED <<waiting, training_cluster, diabetes_ds, best_run,
                 best_run_metrics, runVars, datasets, cluster, models>>

\* <dataset>.register(..., create_new_version=True) of the drift notebook.
RegisterDataset ==
  /\ At("register_dataset")
  /\ \E ok \in BOOLEAN :
       IF ok
         THEN /\ datasets' = [datasets EXCEPT ![Cur.tag] = @ + 1]
              /\ Advance(<<Call("Dataset.register")>>, <<"registered!">>)
         ELSE /\ Raise(<<Failed("Dataset.register")>>, <<>>)
              /\ UNCHANGED datasets
  /\ UNCHANGED <<waiting, training_cluster, diabetes_ds, best_run,
                 best_run_metrics, runVars, datastore, cluster, models>>

\* A Create-compute cell without the lookup of the existing compute target.
CreateCompute_NoLookup ==
  /\ At("create_compute")
  /\ cluster' = [state |-> "Creating", max_nodes |-> max_nodes]
  /\ training_cluster' = TRUE
  /\ waiting' = TRUE
  /\ calls' = calls \o <<Call("ComputeTarget.create")>>
  /\ UNCHANGED <<nb, cluster_name, pc, status, out, http, diabetes_ds, best_run,
                 best_run_metrics, runVars, datasets, datastore, models>>

\* The Create-compute cell up to the point where it blocks.
CreateCompute ==
  /\ At("create_compute")
  /\ IF cluster.state # "Absent"
       THEN /\ training_cluster' = TRUE
            /\ Advance(<<Call("ComputeTarget")>>, <<"Found existing cluster, use it.">>)
            /\ UNCHANGED <<waiting, cluster>>
       ELSE \E ok \in BOOLEAN :
              IF ok /\ ValidName(cluster_name)
                THEN /\ cluster' = [state |-> "Creating", max_nodes |-> max_nodes]
                     /\ training_cluster' = TRUE
                     /\ waiting' = TRUE
                     /\ calls' = calls \o <<Failed("ComputeTarget"),
                                            HCall("ComputeTarget.create", "ComputeTargetException", FALSE)>>
                     /\ UNCHANGED <<nb, cluster_name, pc, status, out, http>>
                ELSE /\ Advance(<<Failed("ComputeTarget"),
                                  HCall("ComputeTarget.create", "ComputeTargetException", TRUE)>>,
                                <<"ex">>)
                     /\ UNCHANGED <<waiting, training_cluster, cluster>>
  /\ UNCHANGED <<diabetes_ds, best_run, best_run_metrics, runVars,
                 datasets, datastore, models>>

\* A wait whose handler, besides printing, deletes the cluster that failed to
\* provision.
ComputeWait_Cleanup ==
  /\ status = "running"
  /\ waiting
  /\ waiting' = FALSE
  /\ \/ /\ cluster.state = "Succeeded"
        /\ Advance(<<HCall("ComputeTarget.wait_for_completion", "ComputeTargetException", FALSE)>>, <<>>)
        /\ UNCHANGED cluster
     \/ /\ Advance(<<HCall("ComputeTarget.wait_for_completion", "ComputeTargetException", TRUE),
                      HCall("ComputeTarget.delete", "Exception", FALSE)>>, <<"ex">>)
        /\ cluster' = [state |-> "Absent", max_nodes |-> 0]
  /\ UNCHANGED <<training_cluster, diabetes_ds, best_run, best_run_metrics,
                 runVars, datasets, datastore, models>>

\* training_cluster.wait_for_completion(show_output=True) and its handler.
ComputeWait ==
  /\ status = "running"
  /\ waiting
  /\ waiting' = FALSE
  /\ \/ /\ cluster.state = "Succeeded"
        /\ Advance(<<HCall("ComputeTarget.wait_for_completion", "ComputeTargetException", FALSE)>>, <<>>)
     \/ Advance(<<HCall("ComputeTarget.wait_for_completion", "ComputeTargetException", TRUE)>>, <<"ex">>)
  /\ UNCHANGED <<training_cluster, diabetes_ds, best_run, best_run_metrics,
                 runVars, wsVars>>

\* The platform finishes provisioning the cluster.
Provision ==
  /\ cluster.state = "Creating"
  /\ cluster' = [cluster EXCEPT !.state = "Succeeded"]
  /\ UNCHANGED <<kernelVars, runVars, datasets, datastore, models>>

GetStatus ==
  /\ At("get_status")
  /\ IF training_cluster
       THEN Advance(<<Call("get_status")>>, <<"state">>)
       ELSE Raise(<<>>, <<>>)
  /\ UNCHANGED <<waiting, training_cluster, diabetes_ds, best_run,
                 best_run_metrics, runVars, wsVars>>

EnvRegister ==
  /\ At("env_register")
  /\ Advance(<<Call("Environment.register")>>, <<>>)
  /\ UNCHANGED <<waiting, training_cluster, diabetes_ds, best_run,
                 best_run_metrics, runVars, wsVars>>

\* DataDriftDetector.create_from_datasets(..., compute_target=cluster_name)
CreateFromDatasets ==
  /\ At("create_from_datasets")
  /\ IF cluster.state # "Absent"
       THEN Advance(<<Call("create_from_datasets")>>, <<"monitor">>)
       ELSE Raise(<<Failed("create_from_datasets")>>, <<>>)
  /\ UNCHANGED <<waiting, training_cluster, diabetes_ds, best_run,
                 best_run_metrics, runVars, wsVars>>

\* ----------------------------------------------------------- cells: runs
\* experiment.submit(config) and the cell code in front of it.
Submit ==
  /\ At("submit")
  /\ LET ds_bound == CASE Cur.ds = "get" -> Registered
                       [] Cur.ds = "var" -> diabetes_ds
                       [] OTHER -> TRUE
         tc_bound == (Cur.target = "var") => training_cluster
         cs == IF Cur.ds = "get" THEN <<Call("ws.datasets")>> ELSE <<>>
     IN  /\ diabetes_ds' = IF Cur.ds = "get" THEN Registered ELSE diabetes_ds
         /\ IF ~(ds_bound /\ tc_bound)
              THEN /\ Raise(cs, <<>>)
                   /\ UNCHANGED runVars
              ELSE IF Cur.target = "name" /\ cluster.state = "Absent"
                THEN /\ Raise(cs \o <<Failed("submit")>>, <<>>)
                     /\ UNCHANGED runVars
                ELSE /\ run' = [kind |-> Cur.kind, status |-> "Running",
                                target |-> IF Cur.target = "local" THEN "local" ELSE "cluster",
                                script |-> Cur.script]
                     /\ script_runs' = IF Cur.kind = "script" THEN <<NewJob(<<>>)>> ELSE <<>>
                     /\ Advance(cs \o <<Call("submit")>>, <<>>)
  /\ UNCHANGED <<waiting, training_cluster, best_run, best_run_metrics, wsVars>>

\* A wait that returns at once, whatever the state of the run.
WaitForCompletion_NoBlock ==
  /\ At("wait_for_completion")
  /\ Advance(<<Call("wait_for_completion")>>, <<>>)
  /\ UNCHANGED <<waiting, training_cluster, diabetes_ds, best_run,
                 best_run_metrics, runVars, wsVars>>

\* run.wait_for_completion(): blocks until the run is in a final state and
\* raises when that state is a failure.
WaitForCompletion ==
  /\ At("wait_for_completion")
  /\ run.status \in {"Completed", "Failed"}
  /\ IF run.status = "Completed"
       THEN Advance(<<Call("wait_for_completion")>>, <<>>)
       ELSE Raise(<<Failed("wait_for_completion")>>, <<>>)
  /\ UNCHANGED <<waiting, training_cluster, diabetes_ds, best_run,
                 best_run_metrics, runVars, wsVars>>

\* metrics = run.get_metrics() ... run.get_file_names()
GetMetrics ==
  /\ At("get_metrics")
  /\ Advance(IF Cur.kind = "files"
               THEN <<Call("get_metrics"), Call("get_file_names")>>
               ELSE <<Call("get_metrics")>>,
             <<"metrics">>)
  /\ UNCHANGED <<waiting, training_cluster, diabetes_ds, best_run,
                 best_run_metrics, runVars, wsVars>>

\* for run in automl_run.get_children(): ... run.get_metrics()
GetChildren ==
  /\ At("get_children")
  /\ Advance(<<Call("get_children"), Call("get_metrics")>>, <<"metrics">>)
  /\ UNCHANGED <<waiting, training_cluster, diabetes_ds, best_run,
                 best_run_metrics, runVars, wsVars>>

\* client = ExplanationClient.from_run(run); client.download_model_explanation()
DownloadModelExplanation ==
  /\ At("download_model_explanation")
  /\ Advance(<<Call("download_model_explanation")>>, <<"importance">>)
  /\ UNCHANGED <<waiting, training_cluster, diabetes_ds, best_run,
                 best_run_metrics, runVars, wsVars>>

\* ------------------------------------------------------------ hyperdrive
\* The comparison of a sweep whose goal is to minimize.
Minimize(a, b) == a <= b

Better(a, b) == IF primary_metric_goal = "MAXIMIZE" THEN a >= b ELSE a <= b

\* The child runs that logged the primary metric.
Candidates == {i \in DOMAIN script_runs : Logged(script_runs[i], primary_metric_name) > 0}

\* The runs get_best_run_by_primary_metric may return.
BestRuns ==
  {i \in Candidates :
     \A j \in Candidates : Better(Logged(script_runs[i], primary_metric_name),
                                  Logged(script_runs[j], primary_metric_name))}

\* The cell that determines the best run: best_run is None, and
\* best_run.get_metrics() raises, when no child run logged the metric.
GetBestRun ==
  /\ At("get_best_run")
  /\ IF BestRuns = {}
       THEN /\ Raise(<<Call("get_children_sorted_by_primary_metric"),
                       Call("get_best_run_by_primary_metric")>>, <<"children">>)
            /\ UNCHANGED <<best_run, best_run_metrics>>
       ELSE \E b \in BestRuns :
              /\ best_run' = b
              /\ best_run_metrics' = get_metrics(script_runs[b])
              /\ Advance(<<Call("get_children_sorted_by_primary_metric"),
                           Call("get_best_run_by_primary_metric"),
                           Call("get_metrics"), Call("get_details")>>,
                         <<"children", "Best Run Id">>)
  /\ UNCHANGED <<waiting, training_cluster, diabetes_ds, runVars, wsVars>>

\* A registration that takes the model and the metrics of the first run of
\* the experiment, not those of best_run.
RegisterModel_FirstRun ==
  /\ At("register_model")
  /\ LET found == {f \in script_runs[1].files : f[1] = model_path}
     IN  IF found # {}
           THEN /\ models' = Append(models,
                               [name |-> model_name, tag |-> Cur.tag,
                                properties |-> get_metrics(script_runs[1]), run |-> 1,
                                model |-> (CHOOSE f \in found : TRUE)[2]])
                /\ Advance(<<Call("register_model"), Call("Model.list")>>, <<"models">>)
           ELSE /\ Raise(<<Failed("register_model")>>, <<>>)
                /\ UNCHANGED models
  /\ UNCHANGED <<waiting, training_cluster, diabetes_ds, best_run,
                 best_run_metrics, runVars, datasets, datastore, cluster>>

\* <run>.register_model(model_path=..., model_name=..., tags=..., properties=...)
\* followed by the listing of the registered models.
RegisterModel ==
  /\ At("register_model")
  /\ LET src == IF Cur.kind = "best_run" THEN best_run ELSE 1
         props == IF Cur.kind = "best_run" THEN best_run_metrics
                                           ELSE get_metrics(script_runs[src])
         cs == IF Cur.kind = "best_run" THEN <<>>
                                        ELSE <<Call("get_metrics"), Call("get_metrics")>>
         found == {f \in script_runs[src].files : f[1] = model_path}
     IN  IF found # {}
           THEN /\ models' = Append(models,
                               [name |-> model_name, tag |-> Cur.tag,
                                properties |-> props, run |-> src,
                                model |-> (CHOOSE f \in found : TRUE)[2]])
                /\ Advance(cs \o <<Call("register_model"), Call("Model.list")>>, <<"models">>)
           ELSE /\ Raise(cs \o <<Failed("register_model")>>, <<>>)
                /\ UNCHANGED models
  /\ UNCHANGED <<waiting, training_cluster, diabetes_ds, best_run,
                 best_run_metrics, runVars, datasets, datastore, cluster>>

\* -------------------------------------------------------------- platform
Unused == {k \in DOMAIN params :
             \A i \in DOMAIN script_runs : script_runs[i].args # params[k]}

\* A sweep that draws each combination at random from the grid, as random
\* sampling does.
HyperDriveLaunch_Random ==
  /\ run.kind = "hyperdrive"
  /\ run.status = "Running"
  /\ Len(script_runs) < max_total_runs
  /\ Count("Queued") + Count("Running") < max_concurrent_runs
  /\ \E k \in DOMAIN params : script_runs' = Append(script_runs, NewJob(params[k]))
  /\ UNCHANGED <<run, kernelVars, wsVars>>

\* A sweep that submits its child runs without the limit on concurrent runs.
HyperDriveLaunch_Unthrottled ==
  /\ run.kind = "hyperdrive"
  /\ run.status = "Running"
  /\ Len(script_runs) < max_total_runs
  /\ Unused # {}
  /\ script_runs' = Append(script_runs,
                      NewJob(params[CHOOSE k \in Unused : \A m \in Unused : k <= m]))
  /\ UNCHANGED <<run, kernelVars, wsVars>>

\* The sweep generates the next combination of the grid and submits a child
\* run for it.
HyperDriveLaunch ==
  /\ run.kind = "hyperdrive"
  /\ run.status = "Running"
  /\ Len(script_runs) < max_total_runs
  /\ Count("Queued") + Count("Running") < max_concurrent_runs
  /\ Unused # {}
  /\ script_runs' = Append(script_runs,
                      NewJob(params[CHOOSE k \in Unused : \A m \in Unused : k <= m]))
  /\ UNCHANGED <<run, kernelVars, wsVars>>

\* A queued script run gets a node of its compute target.
JobStart(i) ==
  /\ script_runs[i].status = "Queued"
  /\ (run.target = "cluster") =>
        /\ cluster.state = "Succeeded"
        /\ Count("Running") < cluster.max_nodes
  /\ script_runs' = [script_runs EXCEPT ![i].status = "Running"]
  /\ UNCHANGED <<run, kernelVars, wsVars>>

\* Accuracy and AUC of abstract classifier m on the test split.
Evaluation(m) == [Accuracy |-> 1 + (m % 2), AUC |-> 1 + (m \div 2)]

\* The value the script logs under name.
LogValue(j, name) ==
  CASE name = "learning_rate" -> j.args[1]
    [] name = "n_estimators" -> j.args[2]
    [] name = "Regularization Rate" -> 1
    [] name = "Accuracy" -> Evaluation(j.model).Accuracy
    [] name = "AUC" -> Evaluation(j.model).AUC

\* A parser that declares the hyperparameters with hyphens in their flags.
Parser_Hyphens ==
  << [flag |-> "--input-data", type |-> "str", dest |-> "input_data"],
     [flag |-> "--learning-rate", type |-> "float", dest |-> "learning_rate"],
     [flag |-> "--n-estimators", type |-> "int", dest |-> "n_estimators"] >>

\* The arguments the script declares with parser.add_argument.
Parser ==
  << [flag |-> "--input-data", type |-> "str", dest |-> "input_data"],
     [flag |-> "--learning_rate", type |-> "float", dest |-> "learning_rate"],
     [flag |-> "--n_estimators", type |-> "int", dest |-> "n_estimators"] >>

\* The search space of the sweep: per key the values to choose from, and the
\* scale they are kept in (hundredths for learning_rate).
SamplingSpace ==
  << [key |-> "--learning_rate", values |-> learning_rate, scale |-> 100],
     [key |-> "--n_estimators", values |-> n_estimators, scale |-> 1] >>

\* type(v) returns: float takes every number, int only text of a whole number.
Accepts(type, v, scale) == (type = "int") => (v % scale = 0)

\* parser.parse_args() takes the arguments the sweep put on the command line
\* of run j: each flag is declared and its value converts.
ArgsAccepted(j) ==
  \A k \in DOMAIN j.args :
    \E a \in DOMAIN Parser :
      /\ Parser[a].flag = SamplingSpace[k].key
      /\ Accepts(Parser[a].type, j.args[k], SamplingSpace[k].scale)

\* One statement of a training script that returns; m is the classifier
\* fit() returns.
Do(j, s, m) ==
  CASE s.stmt = "log" ->
         [j EXCEPT !.trace = Append(@, s),
                   !.log = Append(@, <<s.name, LogValue(j, s.name)>>)]
    [] s.stmt = "fit" -> [j EXCEPT !.trace = Append(@, s), !.model = m]
    [] s.stmt = "dump" ->
         [j EXCEPT !.trace = Append(@, s), !.files = @ \cup {<<s.name, j.model>>}]
    [] s.stmt = "complete" -> [j EXCEPT !.trace = Append(@, s), !.status = "Completed"]
    [] OTHER -> [j EXCEPT !.trace = Append(@, s)]

\* The statements ss executed in order.
RECURSIVE Exec(_, _, _)
Exec(j, ss, m) == IF ss = <<>> THEN j ELSE Exec(Do(j, Head(ss), m), Tail(ss), m)

\* parser.parse_args() ends the script with an error: the run fails before
\* it logs anything.
ParseError(j) == [j EXCEPT !.trace = <<Stmt("parse", "")>>, !.status = "Failed"]

\* The statements of ss in front of its first load.
RECURSIVE BeforeLoad(_)
BeforeLoad(ss) ==
  IF ss = <<>> \/ Head(ss).stmt = "load" THEN <<>>
  ELSE <<Head(ss)>> \o BeforeLoad(Tail(ss))

\* The training script runs from its first statement to run.complete(),
\* unless it rejects its arguments.
RunScript(i) ==
  /\ script_runs[i].status = "Running"
  /\ \E m \in 1..MaxModels :
       script_runs' = [script_runs EXCEPT ![i] =
                         IF ArgsAccepted(@) THEN Exec(@, Script(run.script), m)
                                            ELSE ParseError(@)]
  /\ run' = IF run.kind = "script" THEN [run EXCEPT !.status = script_runs'[i].status]
                                   ELSE run
  /\ UNCHANGED <<kernelVars, wsVars>>

\* The training script raises while it loads its data.
JobFail(i) ==
  /\ script_runs[i].status = "Running"
  /\ script_runs' = [script_runs EXCEPT ![i] =
       [Exec(@, BeforeLoad(Script(run.script)), 0) EXCEPT !.status = "Failed"]]
  /\ run' = IF run.kind = "script" THEN [run EXCEPT !.status = "Failed"] ELSE run
  /\ UNCHANGED <<kernelVars, wsVars>>

\* The sweep ends when every combination it may run has reached a final state.
HyperDriveFinish ==
  /\ run.kind = "hyperdrive"
  /\ run.status = "Running"
  /\ Len(script_runs) >= max_total_runs \/ Unused = {}
  /\ \A i \in DOMAIN script_runs : Terminal(script_runs[i])
  /\ run' = [run EXCEPT !.status = "Completed"]
  /\ UNCHANGED <<script_runs, kernelVars, wsVars>>

\* An automated ML run or a backfill run ends on the platform.
PlatformFinish ==
  /\ run.kind \in {"automl", "backfill"}
  /\ run.status = "Running"
  /\ cluster.state = "Succeeded"
  /\ \E st \in {"Completed", "Failed"} : run' = [run EXCEPT !.status = st]
  /\ UNCHANGED <<script_runs, kernelVars, wsVars>>

\* ----------------------------------------------------- scoring clients
StatusCodes == {200, 401, 503}

\* The classes the deployed classifier predicts.
Predictions == {0, 1}

\* str() of a prediction, as print shows it.
Str(v) == CASE v = 0 -> "0" [] v = 1 -> "1"

automl_key == "jXPlpIjuLKterehGtsHzsP5pHnqAxb5V"
designer_key == "mM1e4m9HLXpY8p3GUTk6ude0BZOvjOGh"

\* requests.post(endpoint, input_json, headers=headers)
AutoMLRequest ==
  [method |-> "POST", body |-> "json.dumps({data: x})",
   content_type |-> "application/json",
   authorization |-> <<"Bearer ", automl_key>>]

\* urllib.request.Request(endpoint, body, headers)
DesignerRequest ==
  [method |-> "POST", body |-> "str.encode(json.dumps(data))",
   content_type |-> "application/json",
   authorization |-> <<"Bearer ", designer_key>>]

\* A scoring cell that prints the prediction whatever the status code is.
RequestsPost_NoStatusCheck ==
  /\ At("requests_post")
  /\ \E code \in StatusCodes, y \in Predictions :
       /\ http' = [request |-> AutoMLRequest,
                   response |-> [code |-> code, result |-> <<y>>]]
       /\ Proceed(<<Call("requests.post")>>,
                  <<"Prediction:", Str(y), IF y = 1 THEN "Diabetic" ELSE "Not Diabetic">>)
  /\ UNCHANGED <<waiting, training_cluster, diabetes_ds, best_run,
                 best_run_metrics, runVars, wsVars>>

\* The automated ML scoring cell: the request may raise (no connection), or
\* a response arrives; a response with status 200 carries the predictions.
RequestsPost ==
  /\ At("requests_post")
  /\ \/ /\ http' = [request |-> AutoMLRequest, response |-> NoResponse]
        /\ Abort(<<Failed("requests.post")>>, <<>>)
     \/ \E code \in StatusCodes, y \in Predictions :
          /\ http' = [request |-> AutoMLRequest,
                      response |-> [code |-> code,
                                    result |-> IF code = 200 THEN <<y>> ELSE <<>>]]
          /\ Proceed(<<Call("requests.post")>>,
                     IF code = 200
                       THEN <<"Prediction:", Str(y),
                              IF y = 1 THEN "Diabetic" ELSE "Not Diabetic">>
                       ELSE <<"response">>)
  /\ UNCHANGED <<waiting, training_cluster, diabetes_ds, best_run,
                 best_run_metrics, runVars, wsVars>>

\* The designer pipeline scoring cell. urlopen raises URLError when no
\* response arrives and HTTPError for a status other than 200; only
\* HTTPError is caught, and its handler parses the error body as JSON.
UrlOpen ==
  /\ At("urlopen")
  /\ \/ /\ http' = [request |-> DesignerRequest, response |-> NoResponse]
        /\ Abort(<<Failed("urlopen")>>, <<>>)
     \/ \E code \in StatusCodes, y \in Predictions, json_body \in BOOLEAN :
          /\ http' = [request |-> DesignerRequest,
                      response |-> [code |-> code,
                                    result |-> IF code = 200 THEN <<y>> ELSE <<>>]]
          /\ IF code = 200
               THEN Proceed(<<Call("urlopen")>>,
                            <<"Patient", "Prediction", Str(y), "Probability">>)
               ELSE IF json_body
                 THEN Proceed(<<Failed("urlopen")>>,
                              <<"The request failed with status code: ", "headers", "body">>)
                 ELSE Abort(<<Failed("urlopen")>>,
                            <<"The request failed with status code: ", "headers">>)
  /\ UNCHANGED <<waiting, training_cluster, diabetes_ds, best_run,
                 best_run_metrics, runVars, wsVars>>

\* -------------------------------------------------------- specification
Next ==
  \/ FromConfig
  \/ PrepareData
  \/ RandomSplit
  \/ UploadFiles
  \/ RegisterDataset
  \/ CreateCompute
  \/ ComputeWait
  \/ Provision
  \/ GetStatus
  \/ EnvRegister
  \/ CreateFromDatasets
  \/ Submit
  \/ WaitForCompletion
  \/ GetMetrics
  \/ GetChildren
  \/ DownloadModelExplanation
  \/ GetBestRun
  \/ RegisterModel
  \/ HyperDriveLaunch
  \/ \E i \in DOMAIN script_runs : JobStart(i)
  \/ \E i \in DOMAIN script_runs : RunScript(i)
  \/ \E i \in DOMAIN script_runs : JobFail(i)
  \/ HyperDriveFinish
  \/ PlatformFinish
  \/ RequestsPost
  \/ UrlOpen

Spec == Init /\ [][Next]_vars

\* The execution of the Tune Hyperparameters notebook alone, with the
\* platform steps its cells set in motion.
InitTune == Init /\ nb = "Tune"

NextTune ==
  \/ FromConfig
  \/ PrepareData
  \/ CreateCompute
  \/ ComputeWait
  \/ Provision
  \/ Submit
  \/ WaitForCompletion
  \/ GetBestRun
  \/ RegisterModel
  \/ HyperDriveLaunch
  \/ \E i \in DOMAIN script_runs : JobStart(i)
  \/ \E i \in DOMAIN script_runs : RunScript(i)
  \/ \E i \in DOMAIN script_runs : JobFail(i)
  \/ HyperDriveFinish

SpecTune == InitTune /\ [][NextTune]_vars

\* The platform does not stall: a cluster being created gets provisioned, the
\* sweep submits a child run it may submit, a queued run that may start
\* starts, a running script ends.
FairSpecTune ==
  /\ SpecTune
  /\ WF_vars(Provision)
  /\ WF_vars(HyperDriveLaunch)
  /\ WF_vars(\E i \in DOMAIN script_runs : JobStart(i))
  /\ WF_vars(\E i \in DOMAIN script_runs : RunScript(i) \/ JobFail(i))
  /\ WF_vars(HyperDriveFinish)

TypeOK ==
  /\ nb \in Notebooks
  /\ status \in {"running", "done", "aborted"}
  /\ pc \in 1..(Len(Program(nb)) + 1)

\* ----------------------------------------------------------- properties
\* The positions in the log of the calls named name.
Issued(name) == {k \in DOMAIN calls : calls[k].call = name}

\* The positions of the calls named name that the step adds to the log.
NewCalls(name) == {k \in (Len(calls) + 1)..Len(calls') : calls'[k].call = name}

\* The kernel executes the Create-compute cell up to its wait, or to its end.
CellLooksUp ==
  /\ status = "running"
  /\ ~waiting
  /\ Cur.op = "create_compute"
  /\ calls' # calls

\* The wait of the Create-compute cell ends, and the cell with it.
CellEndsWait ==
  /\ status = "running"
  /\ waiting
  /\ calls' # calls

UsesExisting ==
  /\ cluster' = cluster
  /\ training_cluster'
  /\ NewCalls("ComputeTarget.create") = {}
  /\ pc' = pc + 1

CreatesAndBlocks ==
  /\ cluster' = [state |-> "Creating", max_nodes |-> 2]
  /\ training_cluster'
  /\ waiting'
  /\ pc' = pc

PrintsException == out' = Append(out, "ex")

\* C1 as the spec states it: when the compute target exists the cell uses it
\* and creates nothing; otherwise it creates exactly one cluster with
\* max_nodes = 2 and blocks until that cluster is provisioned.
C1_Original ==
  [][ /\ CellLooksUp =>
           IF cluster.state # "Absent"
             THEN UsesExisting
             ELSE Cardinality(NewCalls("ComputeTarget.create")) = 1 /\ CreatesAndBlocks
      /\ CellEndsWait => cluster.state = "Succeeded" ]_vars

\* C1: when the compute target named cluster_name exists, the Create-compute
\* cell uses it and issues no create call. Otherwise it issues exactly one
\* create call; when that call returns, the cluster exists with max_nodes = 2
\* and the cell blocks in its wait, and the wait returns only once the cluster
\* is provisioned. When the create call or the wait raises, the cell prints
\* the exception and ends: a rejected create leaves the workspace without the
\* cluster, a wait that raised may leave it still being provisioned.
C1_CreateCompute ==
  [][ /\ CellLooksUp =>
           IF cluster.state # "Absent"
             THEN UsesExisting
             ELSE /\ Cardinality(NewCalls("ComputeTarget.create")) = 1
                  /\ \/ CreatesAndBlocks
                     \/ /\ cluster' = cluster
                        /\ PrintsException
                        /\ pc' = pc + 1
      /\ CellEndsWait =>
           /\ pc' = pc + 1
           /\ cluster' = cluster
           /\ cluster.state = "Succeeded" \/ PrintsException ]_vars

\* The cell created the cluster and its wait returned.
C1_Witness ==
  /\ \E k \in Issued("ComputeTarget.wait_for_completion") : ~calls[k].raised
  /\ cluster = [state |-> "Succeeded", max_nodes |-> 2]
  /\ status = "running"
  /\ Cur.op = "submit"

\* C2: when 'diabetes dataset' is registered, the Prepare-data cell uploads
\* no file and registers no dataset: datastore and dataset versions stay as
\* they are.
C2_NoUploadWhenRegistered ==
  [][ ( /\ status = "running"
        /\ Cur.op = "prepare_data"
        /\ Registered
        /\ calls' # calls )
      => /\ datasets' = datasets
         /\ datastore' = datastore
         /\ NewCalls("upload_files") = {}
         /\ NewCalls("Dataset.register") = {}
         /\ pc' = pc + 1 ]_vars

\* The cell ran in a workspace that held the dataset.
C2_Witness ==
  /\ nb = "Tune"
  /\ pc = 3
  /\ Registered
  /\ Issued("upload_files") = {}
  /\ Issued("ws.datasets") # {}

\* The pairs of the search space: learning_rate (in hundredths) x n_estimators.
Grid == {1, 10, 100} \X {10, 100}

ChildArgs == {script_runs[i].args : i \in DOMAIN script_runs}

\* C3: the child runs of the hyperdrive experiment have pairwise different
\* combinations of the grid, and the completed experiment has launched
\* exactly 6 of them, one for each of the 3 x 2 pairs.
C3_OneRunPerPair ==
  (run.kind = "hyperdrive") =>
    /\ \A i, j \in DOMAIN script_runs :
         script_runs[i].args = script_runs[j].args => i = j
    /\ ChildArgs \subseteq Grid
    /\ Len(script_runs) <= 6
    /\ (run.status = "Completed") => (Len(script_runs) = 6 /\ ChildArgs = Grid)

\* The sweep has completed.
C3_Witness ==
  /\ run.kind = "hyperdrive"
  /\ run.status = "Completed"
  /\ Len(script_runs) = 6

\* Every combination of the grid has been launched and its run has ended.
AllChildrenRan ==
  /\ ChildArgs = Grid
  /\ \A i \in DOMAIN script_runs : Terminal(script_runs[i])

C5_BestRunMaximizesAUC ==
  (best_run # 0) =>
    \A i \in DOMAIN script_runs :
      Logged(script_runs[best_run], "AUC") >= Logged(script_runs[i], "AUC")

\* best_run is determined among child runs that logged different AUC values.
C5_Witness ==
  /\ best_run # 0
  /\ \E i \in DOMAIN script_runs :
       /\ Logged(script_runs[i], "AUC") > 0
       /\ Logged(script_runs[i], "AUC") < Logged(script_runs[best_run], "AUC")

\* C6: in the tuning notebook, get_best_run_by_primary_metric and
\* register_model are executed only when all 6 child runs of the experiment
\* have been launched and none of them is queued or running.
C6_AfterAllChildren ==
  (nb = "Tune" /\ Issued("get_best_run_by_primary_metric") \cup Issued("register_model") # {})
    => /\ Len(script_runs) = 6
       /\ Count("Queued") = 0
       /\ Count("Running") = 0

\* The tuning notebook has determined the best run and registered its model.
C6_Witness ==
  /\ nb = "Tune"
  /\ Issued("get_best_run_by_primary_metric") # {}
  /\ \E k \in Issued("register_model") : ~calls[k].raised

\* C7: the model the tuning notebook registers, with the tag 'Training
\* context' = 'Hyperdrive', is named 'diabetes_model', is the file
\* outputs/diabetes_model.pkl that best_run saved, and carries as its AUC
\* and Accuracy properties the values best_run logged; the notebook
\* registers no other model.
C7_RegistersBestRun ==
  (nb = "Tune") =>
    \A k \in DOMAIN models :
      /\ models[k].tag = "Hyperdrive"
      /\ models[k].name = "diabetes_model"
      /\ models[k].run = best_run
      /\ <<"outputs/diabetes_model.pkl", models[k].model>> \in script_runs[best_run].files
      /\ models[k].model = script_runs[best_run].model
      /\ models[k].properties.AUC = Logged(script_runs[best_run], "AUC")
      /\ models[k].properties.Accuracy = Logged(script_runs[best_run], "Accuracy")

\* The model of a best run that is not the first child run is registered.
C7_Witness ==
  /\ nb = "Tune"
  /\ Len(models) = 1
  /\ best_run > 1
  /\ script_runs[1].status = "Completed"
  /\ script_runs[1].model # script_runs[best_run].model

\* The calls that read what a run produced.
Reads == {"get_metrics", "get_file_names", "register_model"}

\* A wait_for_completion returned after the last submit in front of call k.
Waited(k) ==
  \E j \in 1..(k - 1) :
    /\ calls[j].call = "wait_for_completion"
    /\ ~calls[j].raised
    /\ \A m \in j..k : calls[m].call # "submit"

\* C8: whenever a notebook reads metrics or file names of a run or registers
\* a model from it, wait_for_completion has returned for that run, the last
\* one submitted; and a notebook that runs to its end has called
\* wait_for_completion on every run it submitted.
C8_WaitBeforeRead ==
  /\ \A k \in DOMAIN calls : calls[k].call \in Reads => Waited(k)
  /\ (status = "done") =>
       \A k \in Issued("submit") :
         \E j \in (k + 1)..Len(calls) :
           /\ calls[j].call = "wait_for_completion"
           /\ \A m \in (k + 1)..j : calls[m].call # "submit"

\* The Train notebook ran both experiments to its end.
C8_Witness ==
  /\ nb = "Train"
  /\ status = "done"
  /\ Len(models) = 2
  /\ Cardinality(Issued("wait_for_completion")) = 2

\* C9 as the spec states it: no SDK call is issued from an exception
\* handler, the one for compute-target-not-found included.
C9_Original == \A k \in DOMAIN calls : calls[k].handler = ""

\* The tokens "ex" in the output: the exceptions printed.
Printed == {k \in DOMAIN out : out[k] = "ex"}

\* The calls that raised inside a try whose handler is `except Exception`.
CaughtByPrint ==
  {k \in DOMAIN calls :
     /\ calls[k].raised
     /\ \/ calls[k].call \in {"ComputeTarget.create", "ComputeTarget.wait_for_completion"}
        \/ /\ calls[k].call = "Dataset.register"
           /\ Program(nb)[calls[k].site].op = "prepare_data"}

\* C9: every `except Exception` handler prints the caught exception, issues
\* no SDK call and leaves registered datasets, cluster and models as they
\* are. The handler of ComputeTargetException (compute target not found)
\* prints nothing: it issues the calls that create the cluster and wait for
\* it, and only these.
C9_Handlers ==
  /\ [](/\ \A k \in DOMAIN calls :
             /\ calls[k].handler \in {"", "ComputeTargetException"}
             /\ (calls[k].handler = "ComputeTargetException") =>
                  /\ calls[k].call \in {"ComputeTarget.create",
                                        "ComputeTarget.wait_for_completion"}
                  /\ \E j \in 1..(k - 1) :
                       /\ calls[j].call = "ComputeTarget"
                       /\ calls[j].raised
                       /\ calls[j].site = calls[k].site
        /\ Cardinality(Printed) = Cardinality(CaughtByPrint))
  /\ [][PrintsException =>
          /\ datasets' = datasets
          /\ cluster' = cluster
          /\ models' = models]_vars

\* The lookup raised, the handler created the cluster, and another handler
\* printed the exception of the wait.
C9_Witness ==
  /\ \E k \in Issued("ComputeTarget.create") :
       calls[k].handler = "ComputeTargetException" /\ ~calls[k].raised
  /\ \E k \in Issued("ComputeTarget.wait_for_completion") : calls[k].raised
  /\ Printed # {}

\* The requests the claim is about.
Attempts == {"upload_files", "Dataset.register", "register_model",
             "ComputeTarget.create", "submit", "requests.post", "urlopen"}

\* C10: within one execution of a notebook no call site issues its upload,
\* registration, cluster creation, submission or scoring request a second
\* time, whether the first attempt returned or raised.
C10_NoRetry ==
  \A k, j \in DOMAIN calls :
    (calls[k].call \in Attempts /\ calls[k].call = calls[j].call
       /\ calls[k].site = calls[j].site) => k = j

\* A request raised and the execution went on to its end without a second
\* attempt.
C10_Witness ==
  /\ status \in {"done", "aborted"}
  /\ \E k \in DOMAIN calls :
       /\ calls[k].call \in Attempts
       /\ calls[k].raised
       /\ k < Len(calls)

\* The automated ML scoring cell has ended, by its last line or an exception.
ScoreAutoMLEnded == nb = "ScoreAutoML" /\ status # "running"

DesignerRequestFailed ==
  /\ nb = "ScoreDesigner"
  /\ \E k \in Issued("urlopen") : calls[k].raised

\* C12: in the designer pipeline scoring client no exception leaves the
\* cell; a failed request ends with the cell having printed 'The request
\* failed with status code: <code>', the response headers and the decoded
\* error body, and a successful request with the patient id, the prediction
\* and the probability printed.
C12_DesignerScoring ==
  (nb = "ScoreDesigner") =>
    /\ status # "aborted"
    /\ DesignerRequestFailed =>
         out = <<"The request failed with status code: ", "headers", "body">>
    /\ (status = "done" /\ ~DesignerRequestFailed) =>
         \E y \in {0, 1} :
           out = <<"Patient", "Prediction", IF y = 1 THEN "1" ELSE "0", "Probability">>

\* The service answered 503 with a body that is not JSON: the handler printed
\* the status line and the headers, and the exception of json.loads left the
\* cell.
C12_Witness ==
  /\ DesignerRequestFailed
  /\ http.response.code = 503
  /\ status = "aborted"
  /\ out = <<"The request failed with status code: ", "headers">>

\* The statement logs a metric, saves a file or completes the run.
Recorded(s) == s.stmt \in {"log", "dump", "complete"}

\* The values run j logged under name, in order.
Values(j, name) == {k \in DOMAIN j.log : j.log[k][1] = name}

\* C13: a run of the hyperdrive training script that reached run.complete()
\* has before it, each exactly once and in this order, logged learning_rate
\* and n_estimators with the values of its arguments, logged Accuracy,
\* logged AUC and saved the fitted model to outputs/diabetes_model.pkl.
C13_ScriptOrder ==
  (run.kind = "hyperdrive") =>
    \A i \in DOMAIN script_runs :
      LET j == script_runs[i]
      IN  (j.status = "Completed") =>
            /\ SelectSeq(j.trace, Recorded) =
                 << [stmt |-> "log", name |-> "learning_rate"],
                    [stmt |-> "log", name |-> "n_estimators"],
                    [stmt |-> "log", name |-> "Accuracy"],
                    [stmt |-> "log", name |-> "AUC"],
                    [stmt |-> "dump", name |-> "outputs/diabetes_model.pkl"],
                    [stmt |-> "complete", name |-> ""] >>
            /\ Len(j.log) = 4
            /\ j.log[1] = <<"learning_rate", j.args[1]>>
            /\ j.log[2] = <<"n_estimators", j.args[2]>>
            /\ j.log[3][1] = "Accuracy"
            /\ j.log[4][1] = "AUC"
            /\ j.model # 0
            /\ <<"outputs/diabetes_model.pkl", j.model>> \in j.files

\* A child run of the sweep with learning_rate 0.1 and 100 estimators
\* completed.
C13_Witness ==
  /\ run.kind = "hyperdrive"
  /\ \E i \in DOMAIN script_runs :
       /\ script_runs[i].status = "Completed"
       /\ script_runs[i].args = <<10, 100>>

\* The flags the training script parses.
Flags == {Parser[a].flag : a \in DOMAIN Parser}

\* C14: every key of the sampling space is a flag the training script
\* parses and every value to choose from converts with the type of that
\* flag, so no child run of the sweep ends in parse_args(); and the primary
\* metric of the sweep is logged by every child run that completes.
C14_ConfigMatchesScript ==
  /\ \A k \in DOMAIN SamplingSpace :
       /\ SamplingSpace[k].key \in Flags
       /\ \A a \in DOMAIN Parser :
            (Parser[a].flag = SamplingSpace[k].key) =>
              \A n \in DOMAIN SamplingSpace[k].values :
                Accepts(Parser[a].type, SamplingSpace[k].values[n], SamplingSpace[k].scale)
  /\ {SamplingSpace[k].key : k \in DOMAIN SamplingSpace} = {"--learning_rate", "--n_estimators"}
  /\ primary_metric_name = "AUC"
  /\ (run.kind = "hyperdrive") =>
       \A i \in DOMAIN script_runs :
         /\ Terminal(script_runs[i]) => Len(script_runs[i].trace) > 1
         /\ (script_runs[i].status = "Completed") =>
              Values(script_runs[i], primary_metric_name) # {}

\* The sweep completed with the child run for learning_rate 0.01 completed.
C14_Witness ==
  /\ run.kind = "hyperdrive"
  /\ run.status = "Completed"
  /\ \E i \in DOMAIN script_runs :
       /\ script_runs[i].status = "Completed"
       /\ script_runs[i].args[1] = 1
       /\ Logged(script_runs[i], "AUC") > 0

\* The six steps of the pipeline, each as the SDK calls that perform it:
\* upload, dataset registration, compute cluster, submission, wait, model
\* registration.
PipelineSteps ==
  << {"upload_files"}, {"Dataset.register"}, {"ComputeTarget"}, {"submit"},
     {"wait_for_completion"}, {"register_model"} >>

\* The log holds, from position k on and in this order, a call of each of
\* steps that returned (the lookup of the compute target may have raised).
RECURSIVE InOrder(_, _)
InOrder(steps, k) ==
  IF steps = <<>> THEN TRUE
  ELSE IF k > Len(calls) THEN FALSE
  ELSE IF /\ calls[k].call \in Head(steps)
          /\ ~calls[k].raised \/ calls[k].call = "ComputeTarget"
         THEN InOrder(Tail(steps), k + 1)
         ELSE InOrder(steps, k + 1)

\* C15 as the spec states it: every notebook that ran to its end has
\* uploaded files, registered a dataset, defined a compute cluster, submitted
\* a run, waited for it and registered a model, in this order.
C15_Original == (status = "done") => InOrder(PipelineSteps, 1)

\* C15: every notebook is a linear sequence of cells, each executed at most
\* once and in order. Only the tuning notebook and the Work-with-Compute
\* notebook perform all six steps in the stated order, and they do when the
\* dataset is not registered yet. The scoring clients issue one HTTP request
\* and no SDK call; the Interpret and Train notebooks upload nothing,
\* register no dataset and define no cluster; the automated ML, drift and
\* Interpret notebooks register no model.
C15_Notebooks ==
  /\ [][pc' = pc \/ pc' = pc + 1]_vars
  /\ []((status = "done" /\ InOrder(PipelineSteps, 1)) => nb \in {"Tune", "Compute"})
  /\ []((status = "done" /\ nb \in {"Tune", "Compute"} /\ Issued("upload_files") # {})
          => InOrder(PipelineSteps, 1))
  /\ [](nb \in {"ScoreAutoML", "ScoreDesigner"} =>
          \A k \in DOMAIN calls : calls[k].call \in {"requests.post", "urlopen"})
  /\ [](nb \in {"Interpret", "Train"} =>
          Issued("upload_files") \cup Issued("Dataset.register") \cup Issued("ComputeTarget") = {})
  /\ [](nb \in {"AutoML", "Drift", "Interpret"} => Issued("register_model") = {})

\* The tuning notebook ran to its end through all six steps.
C15_Witness ==
  /\ nb = "Tune"
  /\ status = "done"
  /\ InOrder(PipelineSteps, 1)

====
